---- MODULE Spec2Model ----
(***************************************************************************)
(* Model of orchestrator_demo.py: the mock vision node, the mock           *)
(* validation agent, MedicalOrchestrator (process_request and              *)
(* synthesize_response), the interactive menu loop and the script body.    *)
(*                                                                         *)
(* Conventions                                                             *)
(*  - Python str is a TLA+ string; non-ASCII glyphs of the source are      *)
(*    written with ASCII stand-ins, the same stand-in for the same glyph:  *)
(*      U+26A0 U+FE0F (warning sign)  ->  (!)                              *)
(*      U+2705 (check mark)           ->  [v]                              *)
(*      U+274C (cross mark)           ->  [x]                              *)
(*      box drawing                   ->  + = |                            *)
(*      other emoji                   ->  dropped                          *)
(*  - an optional value (None or a value) is a sequence: <<>> is None and  *)
(*    <<v>> is the value v.                                                *)
(*  - a Python float x is the integer x * 10^4 (confidence 0.94 is 9400,   *)
(*    tumor size 2.45 is 24500).                                           *)
(*  - a call's outcome is [kind |-> "return", value |-> v] or              *)
(*    [kind |-> "raise", value |-> exception].                             *)
(***************************************************************************)
EXTENDS Integers, Sequences, FiniteSets, TLC

VARIABLES
  pc,                 \* position of the single thread of control
  caller,             \* who called process_request: "main", "menu" or "api"
  heap,               \* the MedicalOrchestrator instances constructed so far
  self,               \* index in heap of the receiver of the current call
  user_query,         \* process_request: first argument
  image_path,         \* process_request: second argument (optional)
  vision_data,        \* process_request: local (optional)
  validation_data,    \* process_request: local (optional)
  calls,              \* calls made by the current / latest process_request
  result,             \* outcome of the latest process_request (optional)
  prev,               \* the process_request call completed before the latest
  direct,             \* latest direct call of a stub or of synthesize_response
  bot,                \* script body: local `bot` (index in heap, 0 unbound)
  orchestrator,       \* run_interactive_demo: local `orchestrator` (same)
  stdin_line,         \* the latest line input() returned (optional)
  choice,             \* run_interactive_demo: local `choice` / main: `response`
  printed,            \* lines written to standard output by the latest step
  clock               \* wall clock, in seconds since the script started

vars == <<pc, caller, heap, self, user_query, image_path, vision_data,
          validation_data, calls, result, prev, direct, bot, orchestrator,
          stdin_line, choice, printed, clock>>

-----------------------------------------------------------------------------
(* Bounds *)

\* The environment stops issuing requests once the clock has passed this.
MaxClock == 9

\* The same for the direct calls of the pure functions.
MaxFnClock == 2

-----------------------------------------------------------------------------
(* Python built-ins used by the script *)

None == <<>>
Some(v) == <<v>>

Min(a, b) == IF a <= b THEN a ELSE b

\* c * n for a one-character string c
RECURSIVE Rep(_, _)
Rep(c, n) == IF n <= 0 THEN "" ELSE c \o Rep(c, n - 1)

LowerAlphabet == "abcdefghijklmnopqrstuvwxyz"
UpperAlphabet == "ABCDEFGHIJKLMNOPQRSTUVWXYZ"

CharAt(s, i) == SubSeq(s, i, i)

\* position of the one-character string c in alphabet, 0 when absent
IndexIn(c, alphabet) ==
  IF \E i \in 1..Len(alphabet) : CharAt(alphabet, i) = c
  THEN CHOOSE i \in 1..Len(alphabet) : CharAt(alphabet, i) = c
  ELSE 0

\* a str.upper() that leaves the string as it is
Upper_identity(s) == s

\* str.upper()
RECURSIVE Upper(_)
Upper(s) ==
  IF s = "" THEN ""
  ELSE LET c == CharAt(s, 1)
           i == IndexIn(c, LowerAlphabet)
       IN (IF i = 0 THEN c ELSE CharAt(UpperAlphabet, i)) \o Upper(Tail(s))

\* str.lower()
RECURSIVE Lower(_)
Lower(s) ==
  IF s = "" THEN ""
  ELSE LET c == CharAt(s, 1)
           i == IndexIn(c, UpperAlphabet)
       IN (IF i = 0 THEN c ELSE CharAt(LowerAlphabet, i)) \o Lower(Tail(s))

Whitespace == {" ", "\t", "\n", "\r"}

RECURSIVE LStrip(_)
LStrip(s) ==
  IF s # "" /\ CharAt(s, 1) \in Whitespace THEN LStrip(Tail(s)) ELSE s

RECURSIVE RStrip(_)
RStrip(s) ==
  IF s # "" /\ CharAt(s, Len(s)) \in Whitespace
  THEN RStrip(SubSeq(s, 1, Len(s) - 1)) ELSE s

\* str.strip()
Strip(s) == RStrip(LStrip(s))

\* s[:n]
Prefix(s, n) == SubSeq(s, 1, Min(n, Len(s)))

\* sub in s
Contains(s, sub) ==
  \E i \in 1..(Len(s) - Len(sub) + 1) : SubSeq(s, i, i + Len(sub) - 1) = sub

\* sep.join(items)
RECURSIVE Join(_, _)
Join(sep, items) ==
  IF items = <<>> THEN ""
  ELSE IF Len(items) = 1 THEN items[1]
  ELSE items[1] \o sep \o Join(sep, Tail(items))

\* s.split("\n"), from position start on
RECURSIVE SplitLinesFrom(_, _)
SplitLinesFrom(s, start) ==
  LET breaks == {i \in start..Len(s) : CharAt(s, i) = "\n"}
  IN IF breaks = {} THEN << SubSeq(s, start, Len(s)) >>
     ELSE LET e == CHOOSE i \in breaks : \A j \in breaks : i <= j
          IN << SubSeq(s, start, e - 1) >> \o SplitLinesFrom(s, e + 1)

SplitLines(s) == SplitLinesFrom(s, 1)

\* an `is not None` test in place of the truth test
Truthy_notNone(opt) == opt # None

\* bool(x) of an optional string: None and "" are false
Truthy(opt) == opt # None /\ opt[1] # ""

\* decimal digits of n, left-padded with zeros to width w
RECURSIVE ZeroPad(_, _)
ZeroPad(s, w) == IF Len(s) >= w THEN s ELSE ZeroPad("0" \o s, w)

RECURSIVE StripTrailingZeros(_)
StripTrailingZeros(s) ==
  IF Len(s) > 1 /\ CharAt(s, Len(s)) = "0"
  THEN StripTrailingZeros(SubSeq(s, 1, Len(s) - 1)) ELSE s

\* str(x) of the float x = n / 10^4: shortest digits, at least one decimal
FloatStr(n) ==
  ToString(n \div 10000) \o "."
    \o StripTrailingZeros(ZeroPad(ToString(n % 10000), 4))

\* format(x, ".1f") of the float x = n / 10^4, for n off the rounding ties
\* (n % 1000 # 500), where the decimal and the binary value round alike
Format1f(n) ==
  LET tenths == (n + 500) \div 1000
  IN ToString(tenths \div 10) \o "." \o ToString(tenths % 10)

\* dict.get(key, default) on a record
Get(d, key, default) == IF key \in DOMAIN d THEN d[key] ELSE default

\* datetime.now().isoformat(): the microseconds are left out when they are 0
IsoFormat(now, usec) ==
  "2026-11-06T13:" \o ZeroPad(ToString((now \div 60) % 60), 2) \o ":"
    \o ZeroPad(ToString(now % 60), 2)
    \o (IF usec = 0 THEN "" ELSE "." \o ZeroPad(ToString(usec), 6))

-----------------------------------------------------------------------------
(* Outcomes of calls *)

Return(v) == [kind |-> "return", value |-> v]
Raise(e) == [kind |-> "raise", value |-> e]

-----------------------------------------------------------------------------
(* 1. Mock vision agent node *)

VisionSleep == 2

\* a vision node whose diagnosis depends on the image
call_vision_node_byimage(image, now, usec) ==
  [agent_id         |-> "vision_expert_01",
   agent_type       |-> "2.5D_Attention_UNet",
   timestamp        |-> IsoFormat(now, usec),
   diagnosis        |-> IF image = "./data/test/scan_04.jpg"
                        THEN "Glioma" ELSE "Meningioma",
   confidence_score |-> 9400,
   stability_check  |-> "PASSED",
   stability_score  |-> 9812,
   tumor_size_cm    |-> 24500,
   tumor_location   |-> "Temporal Lobe (Approximated)",
   explanation_path |-> "./outputs/gradcam_heatmap.png",
   model_version    |-> "v1.0.0"]

\* call_vision_node(image_path), called when the clock shows now.usec
call_vision_node(image, now, usec) ==
  [agent_id         |-> "vision_expert_01",
   agent_type       |-> "2.5D_Attention_UNet",
   timestamp        |-> IsoFormat(now, usec),
   diagnosis        |-> "Glioma",
   confidence_score |-> 9400,
   stability_check  |-> "PASSED",
   stability_score  |-> 9812,
   tumor_size_cm    |-> 24500,
   tumor_location   |-> "Temporal Lobe (Approximated)",
   explanation_path |-> "./outputs/gradcam_heatmap.png",
   model_version    |-> "v1.0.0"]

VisionPrintsBefore(image) ==
  << "", "[System] Connecting to Vision Agent Node...",
     "[System] Sending payload: " \o image >>

VisionPrintsAfter ==
  << "[System] Received structured data from Vision Node." >>

-----------------------------------------------------------------------------
(* 2. Mock validation agent *)

ValidationSleep == 1

knowledge_base ==
  ("Glioma" :>
     [severity          |-> "High",
      common_treatments |-> <<"Surgery", "Radiation Therapy", "Chemotherapy">>,
      survival_rate     |-> "Variable (depends on grade)",
      icd_code          |-> "C71.9"])
  @@
  ("Meningioma" :>
     [severity          |-> "Low to Moderate",
      common_treatments |-> <<"Observation", "Surgery", "Radiation">>,
      survival_rate     |-> "Generally favorable",
      icd_code          |-> "D32.9"])
  @@
  ("No Tumor" :>
     [severity          |-> "None",
      common_treatments |-> <<"None required">>,
      survival_rate     |-> "N/A",
      icd_code          |-> "N/A"])

\* a lookup that ignores the case of the label
call_validation_agent_nocase(diagnosis) ==
  IF \E k \in DOMAIN knowledge_base : Upper(k) = Upper(diagnosis)
  THEN knowledge_base[CHOOSE k \in DOMAIN knowledge_base :
                        Upper(k) = Upper(diagnosis)]
  ELSE [severity |-> "Unknown"]

\* a lookup whose fallback record has no 'severity'
call_validation_agent_barefallback(diagnosis) ==
  IF diagnosis \in DOMAIN knowledge_base
  THEN knowledge_base[diagnosis]
  ELSE [status |-> "Unknown"]

\* call_validation_agent(diagnosis)
call_validation_agent(diagnosis) ==
  IF diagnosis \in DOMAIN knowledge_base
  THEN knowledge_base[diagnosis]
  ELSE [severity |-> "Unknown"]

ValidationPrints == << "", "[System] Querying Validation Agent (Neo4j)..." >>

-----------------------------------------------------------------------------
(* 3. The orchestrator *)

\* MedicalOrchestrator.__init__
MedicalOrchestrator ==
  [system_prompt |-> "You are a helpful medical assistant. ...",
   conversation_history |-> <<>>]

SynthesisSleep == 1

WarningString == "[Orchestrator] (!) Please provide an MRI image for analysis."

StableMarker == "[v] Stable"
UnstableMarker == "(!) Unstable"

\* a stability test that ignores the case of the flag
StabilityStatus_nocase(check) ==
  IF Upper(check) = "PASSED" THEN StableMarker ELSE UnstableMarker

\* the stability_status local of synthesize_response
StabilityStatus(check) ==
  IF check = "PASSED" THEN StableMarker ELSE UnstableMarker

BoxWidth == 62
BoxTop == "+" \o Rep("=", BoxWidth) \o "+"
BoxRule == BoxTop
BoxBottom == BoxTop

\* index (from 1) of the date line among the lines of a report
DateLine == 5

\* the report f-string of synthesize_response, line by line
ReportLines(v, d) ==
  << "",
     BoxTop,
     "|          AUTOMATED PRELIMINARY DIAGNOSTIC REPORT          |",
     BoxRule,
     "|  Date: " \o Prefix(v.timestamp, 19) \o Rep(" ", 26),
     "|  Agent: " \o v.agent_id \o " (" \o v.model_version \o ")" \o Rep(" ", 14),
     BoxRule,
     "|                      PRIMARY FINDING                         |",
     BoxRule,
     "|  Diagnosis: " \o Upper(v.diagnosis),
     "|  Location:  " \o v.tumor_location,
     "|  Size:      " \o FloatStr(v.tumor_size_cm) \o " cm",
     BoxRule,
     "|                      AI CONFIDENCE                           |",
     BoxRule,
     "|  Confidence Score:  " \o Format1f(v.confidence_score * 100) \o "%",
     "|  Stability Check:   " \o StabilityStatus(v.stability_check),
     "|  Stability Score:   " \o FloatStr(v.stability_score),
     BoxRule,
     "|                 KNOWLEDGE GRAPH VALIDATION                   |",
     BoxRule,
     "|  Severity Level:    " \o d.severity,
     "|  ICD-10 Code:       " \o Get(d, "icd_code", "N/A"),
     "|  Common Treatments: "
        \o Join(", ", Get(d, "common_treatments", <<"N/A">>)),
     BoxRule,
     "|                      NEXT STEPS                              |",
     BoxRule,
     "|  1. Review XAI Saliency Map: " \o v.explanation_path,
     "|  2. Consult with specialist for confirmation",
     "|  3. Schedule follow-up imaging if required",
     BoxBottom,
     "",
     "(!) DISCLAIMER: This is an AI-assisted preliminary analysis.",
     "   Final diagnosis must be confirmed by a qualified physician.",
     "" >>

\* MedicalOrchestrator.synthesize_response(vision_data, validation_data):
\* validation_data['severity'] raises KeyError when the key is missing
synthesize_response(v, d) ==
  IF "severity" \notin DOMAIN d
  THEN Raise("KeyError: 'severity'")
  ELSE Return(Join("\n", ReportLines(v, d)))

SynthesisPrints == << "", "[Orchestrator] Synthesizing Final Report..." >>

-----------------------------------------------------------------------------
(* Inputs the environment may supply *)

SampleImage == "./data/test/scan_04.jpg"
DemoImage == "./data/test/patient_scan_001.jpg"
SampleQuery == "Can you check this MRI for any anomalies?"
DemoQuery == "Can you analyze this brain MRI for any anomalies?"

ImageArgs == {None, Some(""), Some(SampleImage), Some(DemoImage)}
Labels == {"Glioma", "Meningioma", "No Tumor", "Unknown Tumor", "glioma"}
StabilityChecks == {"PASSED", "FAILED", "passed"}
Confidences == {9400, 8766, 9996}
Microseconds == {0, 394752}
StdinLines == {"1", "2", "3", " 3 ", "4", "", "y", " Y ", "n"}

SampleRecord == call_vision_node(SampleImage, 0, 0)

\* the sample record with one field changed at a time, and all three at once
VisionInputs ==
  { [SampleRecord EXCEPT !.diagnosis = l] : l \in Labels }
  \cup { [SampleRecord EXCEPT !.confidence_score = c] : c \in Confidences }
  \cup { [SampleRecord EXCEPT !.stability_check = s] : s \in StabilityChecks }
  \cup { [SampleRecord EXCEPT !.diagnosis = "Meningioma",
                              !.confidence_score = 8766,
                              !.stability_check = "FAILED"] }

\* what call_validation_agent can return, and a dict without 'severity'
ValidationInputs ==
  { call_validation_agent(l) : l \in Labels } \cup { [icd_code |-> "C71.9"] }

-----------------------------------------------------------------------------
(* process_request, step by step *)

\* where control goes when process_request finishes with outcome out:
\* the script catches nothing, so an exception ends it
ReturnTo(who, out) ==
  IF who = "api" THEN "api"
  ELSE IF out.kind = "raise" THEN "crashed"
  ELSE IF who = "main" THEN "main_ret"
  ELSE "menu_ret"

\* receiver.process_request(query, image) called by who
Call(query, image, who, receiver) ==
  /\ pc' = "route"
  /\ caller' = who
  /\ self' = receiver
  /\ user_query' = Some(query)
  /\ image_path' = image
  /\ vision_data' = None
  /\ validation_data' = None
  /\ calls' = <<>>
  /\ result' = None
  /\ prev' = IF result = None THEN prev
             ELSE Some([image_path |-> image_path, calls |-> calls,
                        result |-> result[1]])

RoutePrints ==
  << Rep("=", 60), "USER: " \o user_query[1], Rep("=", 60) >>

\* lines 101-108 and 119-120: the header and the routing decision
PR_Route ==
  /\ pc = "route"
  /\ IF Truthy(image_path)
     THEN /\ pc' = "vision"
          /\ printed' = RoutePrints \o
               << "", "[Orchestrator] Intent detected: Medical Image Analysis",
                  "[Orchestrator] Routing to: VISION_AGENT_NODE" >>
          /\ UNCHANGED result
     ELSE /\ result' = Some(Return(WarningString))
          /\ pc' = ReturnTo(caller, Return(WarningString))
          /\ printed' = RoutePrints
  /\ UNCHANGED <<caller, heap, self, user_query, image_path, vision_data,
                 validation_data, calls, prev, direct, bot, orchestrator,
                 stdin_line, choice, clock>>

\* line 111: vision_data = call_vision_node(image_path)
PR_Vision ==
  /\ pc = "vision"
  /\ \E usec \in Microseconds :
       LET now == clock + VisionSleep
           v == call_vision_node(image_path[1], now, usec)
       IN /\ vision_data' = Some(v)
          /\ calls' = Append(calls, [fn |-> "call_vision_node",
                                     args |-> <<image_path[1]>>,
                                     out |-> Return(v)])
          /\ clock' = now
  /\ printed' = VisionPrintsBefore(image_path[1]) \o VisionPrintsAfter
  /\ pc' = "validate"
  /\ UNCHANGED <<caller, heap, self, user_query, image_path, validation_data,
                 result, prev, direct, bot, orchestrator, stdin_line,
                 choice>>

\* a validation step that upper-cases the label before the lookup
PR_Validate_upper ==
  /\ pc = "validate"
  /\ LET label == Upper(vision_data[1].diagnosis)
         d == call_validation_agent(label)
     IN /\ validation_data' = Some(d)
        /\ calls' = Append(calls, [fn |-> "call_validation_agent",
                                   args |-> <<label>>,
                                   out |-> Return(d)])
  /\ clock' = clock + ValidationSleep
  /\ printed' = << "", "[Orchestrator] Routing to: VALIDATION_AGENT" >>
                  \o ValidationPrints
  /\ pc' = "synth"
  /\ UNCHANGED <<caller, heap, self, user_query, image_path, vision_data,
                 result, prev, direct, bot, orchestrator, stdin_line,
                 choice>>

\* lines 114-115: validation_data = call_validation_agent(vision_data["diagnosis"])
PR_Validate ==
  /\ pc = "validate"
  /\ LET label == vision_data[1].diagnosis
         d == call_validation_agent(label)
     IN /\ validation_data' = Some(d)
        /\ calls' = Append(calls, [fn |-> "call_validation_agent",
                                   args |-> <<label>>,
                                   out |-> Return(d)])
  /\ clock' = clock + ValidationSleep
  /\ printed' = << "", "[Orchestrator] Routing to: VALIDATION_AGENT" >>
                  \o ValidationPrints
  /\ pc' = "synth"
  /\ UNCHANGED <<caller, heap, self, user_query, image_path, vision_data,
                 result, prev, direct, bot, orchestrator, stdin_line,
                 choice>>

\* a synthesis step that records the exchange in conversation_history
PR_Synthesize_logging ==
  /\ pc = "synth"
  /\ LET out == synthesize_response(vision_data[1], validation_data[1])
     IN /\ calls' = Append(calls, [fn |-> "synthesize_response",
                                   args |-> <<vision_data[1], validation_data[1]>>,
                                   out |-> out])
        /\ result' = Some(out)
        /\ pc' = ReturnTo(caller, out)
        /\ heap' = [heap EXCEPT ![self].conversation_history =
                                  Append(@, user_query[1])]
  /\ clock' = clock + SynthesisSleep
  /\ printed' = SynthesisPrints
  /\ UNCHANGED <<caller, self, user_query, image_path, vision_data,
                 validation_data, prev, direct, bot, orchestrator,
                 stdin_line, choice>>

\* line 118: return self.synthesize_response(vision_data, validation_data)
PR_Synthesize ==
  /\ pc = "synth"
  /\ LET out == synthesize_response(vision_data[1], validation_data[1])
     IN /\ calls' = Append(calls, [fn |-> "synthesize_response",
                                   args |-> <<vision_data[1], validation_data[1]>>,
                                   out |-> out])
        /\ result' = Some(out)
        /\ pc' = ReturnTo(caller, out)
  /\ clock' = clock + SynthesisSleep
  /\ printed' = SynthesisPrints
  /\ UNCHANGED <<caller, heap, self, user_query, image_path, vision_data,
                 validation_data, prev, direct, bot, orchestrator,
                 stdin_line, choice>>

process_request == PR_Route \/ PR_Vision \/ PR_Validate \/ PR_Synthesize

-----------------------------------------------------------------------------
(* 5. The script body *)

Banner == "MULTI-AGENT HEALTHCARE VISION SYSTEM"

\* lines 246-269: banner, bot = MedicalOrchestrator(), the automated request
Main_Start ==
  /\ pc = "main"
  /\ heap' = Append(heap, MedicalOrchestrator)
  /\ bot' = Len(heap) + 1
  /\ printed' = << Banner, "--- RUNNING AUTOMATED DEMO ---", "" >>
  /\ Call(SampleQuery, Some(SampleImage), "main", Len(heap) + 1)
  /\ UNCHANGED <<direct, orchestrator, stdin_line, choice, clock>>

DemoHeader ==
  << "", Rep("=", 60), "   MEDICAL MULTI-AGENT SYSTEM - INTERACTIVE DEMO",
     Rep("=", 60), "",
     "This demo simulates how the Vision Agent integrates",
     "into a larger healthcare AI pipeline.", "" >>

\* lines 270-276, and lines 177-183 of run_interactive_demo when entered
Main_AskInteractive ==
  /\ pc = "main_ret"
  /\ \E line \in StdinLines :
       LET response == Lower(Strip(line))
       IN /\ stdin_line' = Some(line)
          /\ choice' = Some(response)
          /\ IF response = "y"
             THEN /\ heap' = Append(heap, MedicalOrchestrator)
                  /\ orchestrator' = Len(heap) + 1
                  /\ printed' = << result[1].value, "", Rep("=", 60) >>
                                  \o DemoHeader
                  /\ pc' = "menu"
             ELSE /\ printed' = << result[1].value, "", Rep("=", 60) >>
                  /\ pc' = "done"
                  /\ UNCHANGED <<heap, orchestrator>>
  /\ UNCHANGED <<caller, self, user_query, image_path, vision_data,
                 validation_data, calls, result, prev, direct, bot, clock>>

-----------------------------------------------------------------------------
(* 4. Interactive demo *)

MenuPrints ==
  << "", Rep("-", 40), "OPTIONS:", "  [1] Analyze sample MRI scan",
     "  [2] View system architecture", "  [3] Exit", Rep("-", 40) >>

ArchitectureDiagram == "MULTI-AGENT SYSTEM ARCHITECTURE"
GoodbyeMessage == "Exiting Multi-Agent System Demo. Goodbye!"
InvalidOptionMessage == "[x] Invalid option. Please select 1, 2, or 3."

\* a chain without the exit branch
MenuDispatch_noexit(c) ==
  IF c = "1" THEN "analyze"
  ELSE IF c = "2" THEN "diagram"
  ELSE "invalid"

\* a chain whose second branch also runs the analysis
MenuDispatch_fallthrough(c) ==
  IF c = "1" \/ c = "2" THEN "analyze"
  ELSE IF c = "3" THEN "exit"
  ELSE "invalid"

\* the if / elif chain of lines 195-242
MenuDispatch(c) ==
  IF c = "1" THEN "analyze"
  ELSE IF c = "2" THEN "diagram"
  ELSE IF c = "3" THEN "exit"
  ELSE "invalid"

\* one pass of the while loop, lines 185-242, up to the process_request
\* call of choice "1"
Menu_Step ==
  /\ pc = "menu"
  /\ \E line \in StdinLines :
       LET c == Strip(line)
           branch == MenuDispatch(c)
       IN /\ stdin_line' = Some(line)
          /\ choice' = Some(c)
          /\ CASE branch = "analyze" ->
                    /\ clock < MaxClock
                    /\ printed' = MenuPrints
                    /\ Call(DemoQuery, Some(DemoImage), "menu", orchestrator)
               [] branch = "diagram" ->
                    /\ printed' = MenuPrints \o <<ArchitectureDiagram>>
                    /\ pc' = "menu"
                    /\ UNCHANGED <<caller, self, user_query, image_path,
                                   vision_data, validation_data, calls,
                                   result, prev>>
               [] branch = "exit" ->
                    /\ printed' = MenuPrints \o <<"", GoodbyeMessage>>
                    /\ pc' = "done"
                    /\ UNCHANGED <<caller, self, user_query, image_path,
                                   vision_data, validation_data, calls,
                                   result, prev>>
               [] OTHER ->
                    /\ printed' = MenuPrints \o <<InvalidOptionMessage>>
                    /\ pc' = "menu"
                    /\ UNCHANGED <<caller, self, user_query, image_path,
                                   vision_data, validation_data, calls,
                                   result, prev>>
  /\ UNCHANGED <<heap, direct, bot, orchestrator, clock>>

\* line 200: print(report), then back to the top of the loop
Menu_PrintReport ==
  /\ pc = "menu_ret"
  /\ printed' = << result[1].value >>
  /\ pc' = "menu"
  /\ UNCHANGED <<caller, heap, self, user_query, image_path, vision_data,
                 validation_data, calls, result, prev, direct, bot,
                 orchestrator, stdin_line, choice, clock>>

-----------------------------------------------------------------------------
(* The script *)

Init ==
  /\ pc = "main"
  /\ caller = "none"
  /\ heap = <<>>
  /\ self = 0
  /\ user_query = None
  /\ image_path = None
  /\ vision_data = None
  /\ validation_data = None
  /\ calls = <<>>
  /\ result = None
  /\ prev = None
  /\ direct = None
  /\ bot = 0
  /\ orchestrator = 0
  /\ stdin_line = None
  /\ choice = None
  /\ printed = <<>>
  /\ clock = 0

Next ==
  \/ Main_Start
  \/ process_request
  \/ Main_AskInteractive
  \/ Menu_Step
  \/ Menu_PrintReport

Spec == Init /\ [][Next]_vars

-----------------------------------------------------------------------------
(* The functions called directly, with inputs from the sets above *)

\* a caller holding one orchestrator
InitAPI ==
  /\ pc = "api"
  /\ caller = "none"
  /\ heap = <<MedicalOrchestrator>>
  /\ self = 0
  /\ user_query = None
  /\ image_path = None
  /\ vision_data = None
  /\ validation_data = None
  /\ calls = <<>>
  /\ result = None
  /\ prev = None
  /\ direct = None
  /\ bot = 1
  /\ orchestrator = 0
  /\ stdin_line = None
  /\ choice = None
  /\ printed = <<>>
  /\ clock = 0

API_ProcessRequest ==
  /\ pc = "api"
  /\ clock < MaxClock
  /\ \E img \in ImageArgs : Call(SampleQuery, img, "api", bot)
  /\ printed' = <<>>
  /\ UNCHANGED <<heap, direct, bot, orchestrator, stdin_line, choice, clock>>

DirectFrame ==
  UNCHANGED <<pc, caller, heap, self, user_query, image_path, vision_data,
              validation_data, calls, result, prev, bot, orchestrator,
              stdin_line, choice>>

API_Vision ==
  /\ pc = "api"
  /\ clock < MaxClock
  /\ \E img \in {SampleImage, DemoImage}, usec \in Microseconds :
       /\ direct' = Some([fn |-> "call_vision_node", args |-> <<img>>,
                          out |-> Return(call_vision_node(
                                           img, clock + VisionSleep, usec))])
       /\ printed' = VisionPrintsBefore(img) \o VisionPrintsAfter
  /\ clock' = clock + VisionSleep
  /\ DirectFrame

\* self.synthesize_response(v, d) called directly, v and d drawn from V and D
DirectSynthesize(V, D) ==
  /\ pc = "api"
  /\ \E v \in V, d \in D :
       direct' = Some([fn |-> "synthesize_response", args |-> <<v, d>>,
                       out |-> synthesize_response(v, d)])
  /\ printed' = SynthesisPrints
  /\ clock' = clock + SynthesisSleep
  /\ DirectFrame

API_SynthesizeSample ==
  /\ clock < MaxClock
  /\ DirectSynthesize({SampleRecord},
                      {call_validation_agent("Glioma"), [icd_code |-> "C71.9"]})

NextAPI ==
  \/ API_ProcessRequest
  \/ process_request
  \/ API_Vision
  \/ API_SynthesizeSample

SpecAPI == InitAPI /\ [][NextAPI]_vars

-----------------------------------------------------------------------------
(* The pure functions, applied to every input of the sets above *)

Fn_Validation ==
  /\ pc = "api"
  /\ clock < MaxFnClock
  /\ \E label \in Labels :
       direct' = Some([fn |-> "call_validation_agent", args |-> <<label>>,
                       out |-> Return(call_validation_agent(label))])
  /\ printed' = ValidationPrints
  /\ clock' = clock + ValidationSleep
  /\ DirectFrame

Fn_Synthesize ==
  /\ clock < MaxFnClock
  /\ DirectSynthesize(VisionInputs, ValidationInputs)

NextFn == Fn_Validation \/ Fn_Synthesize

SpecFn == InitAPI /\ [][NextFn]_vars

-----------------------------------------------------------------------------
(* Properties *)

InSeq(x, seq) == \E i \in 1..Len(seq) : seq[i] = x

\* a non-empty image reference was passed
Present(opt) == opt # None /\ opt[1] # ""

\* process_request has returned
Returned == result # None

InProcessRequest == pc \in {"route", "vision", "validate", "synth"}

\* two reports are the same text outside the date line
SameOffDateLine(a, b) ==
  LET la == SplitLines(a)
      lb == SplitLines(b)
  IN /\ Len(la) = Len(lb)
     /\ \A i \in 1..Len(la) : i # DateLine => la[i] = lb[i]

C2_WarningWithoutImage ==
  (caller # "none" /\ ~Present(image_path)) =>
     /\ pc \notin {"vision", "validate", "synth"}
     /\ calls = <<>>
     /\ vision_data = None
     /\ validation_data = None
     /\ pc # "route" =>
          result = Some(Return(
            "[Orchestrator] (!) Please provide an MRI image for analysis."))

C2_Witness ==
  /\ caller = "api"
  /\ image_path = None
  /\ Returned
  /\ result[1].value
       = "[Orchestrator] (!) Please provide an MRI image for analysis."
  /\ calls = <<>>
  /\ prev # None
  /\ prev[1].image_path = Some("")

CallOrder == <<"call_vision_node", "call_validation_agent", "synthesize_response">>

\* C3: the calls of a process_request are, at every moment, an initial part
\* of vision, validation, synthesis; when a call on the image branch has
\* returned there were exactly these three, the vision node got the image
\* reference, the validation agent got the diagnosis of the vision record,
\* the synthesis got both records, and its outcome is what was returned.
C3_CallSequence ==
  /\ Len(calls) <= 3
  /\ \A i \in 1..Len(calls) : calls[i].fn = CallOrder[i]
  /\ (Returned /\ Present(image_path)) =>
       /\ Len(calls) = 3
       /\ calls[1].args = <<image_path[1]>>
       /\ calls[2].args = <<calls[1].out.value.diagnosis>>
       /\ calls[3].args = <<calls[1].out.value, calls[2].out.value>>
       /\ result[1] = calls[3].out

C3_Witness ==
  /\ Returned
  /\ caller = "api"
  /\ Len(calls) = 3
  /\ calls[2].args = <<"Glioma">>
  /\ calls[2].out.value.severity = "High"
  /\ result[1] = calls[3].out

DirectCall(f) == direct # None /\ direct[1].fn = f

\* C4: the lookup has three entries; Glioma gives severity High and code
\* C71.9, Meningioma gives Low to Moderate and D32.9, No Tumor gives None,
\* and any other label gives the record whose only field is severity
\* Unknown.
C4_ValidationLookup ==
  /\ Cardinality(DOMAIN knowledge_base) = 3
  /\ DirectCall("call_validation_agent") =>
       LET label == direct[1].args[1]
           d == direct[1].out.value
       IN /\ direct[1].out.kind = "return"
          /\ label = "Glioma" =>
               d.severity = "High" /\ d.icd_code = "C71.9"
          /\ label = "Meningioma" =>
               d.severity = "Low to Moderate" /\ d.icd_code = "D32.9"
          /\ label = "No Tumor" => d.severity = "None"
          /\ label \notin {"Glioma", "Meningioma", "No Tumor"} =>
               /\ DOMAIN d = {"severity"}
               /\ d.severity = "Unknown"

C4_Witness ==
  /\ DirectCall("call_validation_agent")
  /\ direct[1].args = <<"glioma">>
  /\ direct[1].out.value = [severity |-> "Unknown"]

\* C5 as stated: in the menu loop the input line "3" ends the loop, and any
\* input line other than "1", "2", "3" leaves the loop running and prints
\* the invalid-option message.
C5_Original ==
  [][ pc = "menu" =>
        /\ stdin_line'[1] = "3" => pc' = "done"
        /\ stdin_line'[1] \notin {"1", "2", "3"} =>
             /\ pc' = "menu"
             /\ InSeq("[x] Invalid option. Please select 1, 2, or 3.", printed')
    ]_vars

\* C5 amended: the same of the input line with its surrounding whitespace
\* stripped, which is what the loop dispatches on.
C5_MenuExitAndInvalid ==
  [][ pc = "menu" =>
        /\ choice'[1] = "3" => pc' = "done"
        /\ stdin_line'[1] = " 3 " => choice'[1] = "3"
        /\ choice'[1] \notin {"1", "2", "3"} =>
             /\ pc' = "menu"
             /\ InSeq("[x] Invalid option. Please select 1, 2, or 3.", printed')
    ]_vars

C5_Witness ==
  /\ pc = "menu"
  /\ stdin_line = Some("4")
  /\ choice = Some("4")
  /\ InSeq("[x] Invalid option. Please select 1, 2, or 3.", printed)

\* C6: choice "1" starts one process_request on the demo's orchestrator with
\* the demo image; until it has returned and its report is printed no other
\* request starts, it makes the three calls and does not return the warning,
\* and control is back at the menu; choice "2" starts no request and makes
\* no call and stays at the menu; the loop never rebinds its orchestrator.
C6_MenuChoices ==
  [][ /\ (pc = "menu" /\ choice'[1] = "1") =>
            /\ pc' = "route"
            /\ caller' = "menu"
            /\ self' = orchestrator
            /\ image_path' = Some("./data/test/patient_scan_001.jpg")
      /\ (caller = "menu" /\ (InProcessRequest \/ pc = "menu_ret")) =>
            pc' # "route"
      /\ pc = "menu_ret" =>
            /\ pc' = "menu"
            /\ Len(calls) = 3
            /\ \A i \in 1..3 : calls[i].fn = CallOrder[i]
            /\ result[1].kind = "return"
            /\ result[1].value
                 # "[Orchestrator] (!) Please provide an MRI image for analysis."
      /\ (pc = "menu" /\ choice'[1] = "2") =>
            /\ pc' = "menu"
            /\ UNCHANGED <<calls, result, prev, clock, heap>>
      /\ pc \in {"menu", "menu_ret"} \/ (caller = "menu" /\ InProcessRequest) =>
            /\ orchestrator' = orchestrator
            /\ heap' = heap
    ]_vars

C6_Witness ==
  /\ pc = "menu"
  /\ caller = "menu"
  /\ self = orchestrator
  /\ Len(calls) = 3
  /\ choice = Some("2")
  /\ InSeq("MULTI-AGENT SYSTEM ARCHITECTURE", printed)

\* C7: a report rendered from a record whose stability_check is PASSED
\* shows the stable marker and not the unstable one; rendered from any
\* other stability_check it shows the unstable marker and not the stable
\* one.
C7_StabilityMarker ==
  (DirectCall("synthesize_response") /\ direct[1].out.kind = "return") =>
     LET check == direct[1].args[1].stability_check
         report == direct[1].out.value
     IN IF check = "PASSED"
        THEN /\ Contains(report, "[v] Stable")
             /\ ~Contains(report, "(!) Unstable")
        ELSE /\ Contains(report, "(!) Unstable")
             /\ ~Contains(report, "[v] Stable")

C7_Witness ==
  /\ DirectCall("synthesize_response")
  /\ direct[1].args[1].stability_check = "passed"
  /\ direct[1].out.kind = "return"
  /\ Contains(direct[1].out.value, "Stability Check:   (!) Unstable")

\* the vision calls on record: of the latest request, of the one before it,
\* and the latest direct one
VisionCalls ==
  (IF Len(calls) >= 1 THEN {calls[1]} ELSE {})
  \cup (IF prev # None /\ Len(prev[1].calls) >= 1
        THEN {prev[1].calls[1]} ELSE {})
  \cup (IF DirectCall("call_vision_node")
        THEN {[fn |-> direct[1].fn, args |-> direct[1].args,
               out |-> direct[1].out]}
        ELSE {})

Redact(v) == [v EXCEPT !.timestamp = ""]

\* C8: every vision call returns a record with diagnosis Glioma, confidence
\* 0.94 and stability check PASSED; any two of them, whatever their image
\* references, return records equal outside the timestamp; and two requests
\* with different non-empty image references return reports that are equal
\* outside the date line.
C8_VisionIgnoresInput ==
  /\ \A a \in VisionCalls :
       /\ a.out.kind = "return"
       /\ a.out.value.diagnosis = "Glioma"
       /\ a.out.value.confidence_score = 9400
       /\ a.out.value.stability_check = "PASSED"
  /\ \A a, b \in VisionCalls : Redact(a.out.value) = Redact(b.out.value)
  /\ (Returned /\ prev # None /\ Present(image_path)
        /\ Present(prev[1].image_path)) =>
       /\ result[1].kind = "return"
       /\ prev[1].result.kind = "return"
       /\ SameOffDateLine(prev[1].result.value, result[1].value)

C8_Witness ==
  /\ Returned
  /\ prev # None
  /\ prev[1].image_path = Some("./data/test/scan_04.jpg")
  /\ image_path = Some("./data/test/patient_scan_001.jpg")
  /\ prev[1].result # result[1]
  /\ DirectCall("call_vision_node")

\* C9: every record the validation agent returns has a severity, and
\* rendering a report from such a record returns a report; for the record of
\* an unrecognized label the report shows severity Unknown, code N/A and
\* treatments N/A.
C9_UnknownLabelRenders ==
  /\ DirectCall("call_validation_agent") =>
       "severity" \in DOMAIN direct[1].out.value
  /\ (DirectCall("synthesize_response")
        /\ \E l \in Labels : direct[1].args[2] = call_validation_agent(l)) =>
       /\ direct[1].out.kind = "return"
       /\ (\E l \in Labels \ {"Glioma", "Meningioma", "No Tumor"} :
             direct[1].args[2] = call_validation_agent(l)) =>
            /\ Contains(direct[1].out.value, "Severity Level:    Unknown\n")
            /\ Contains(direct[1].out.value, "ICD-10 Code:       N/A\n")
            /\ Contains(direct[1].out.value, "Common Treatments: N/A\n")

C9_Witness ==
  /\ DirectCall("synthesize_response")
  /\ direct[1].args[2] = [severity |-> "Unknown"]
  /\ direct[1].out.kind = "return"
  /\ Contains(direct[1].out.value, "ICD-10 Code:       N/A\n")

HistoryEmpty ==
  \A i \in 1..Len(heap) : heap[i].conversation_history = <<>>

\* C10: conversation_history is empty in every orchestrator at all times,
\* no step changes an orchestrator, and a request returns what the request
\* before it with the same image argument returned (outside the date line).
C10_HistoryIsDead ==
  /\ [](HistoryEmpty)
  /\ [][heap' = heap]_vars
  /\ []((Returned /\ prev # None /\ prev[1].image_path = image_path) =>
          IF Present(image_path)
          THEN /\ result[1].kind = "return"
               /\ prev[1].result.kind = "return"
               /\ SameOffDateLine(prev[1].result.value, result[1].value)
          ELSE result[1] = prev[1].result)

C10_Witness ==
  /\ Returned
  /\ prev # None
  /\ prev[1].image_path = image_path
  /\ Len(calls) = 3
  /\ DirectCall("synthesize_response")
  /\ heap[bot].conversation_history = <<>>

====
